---- MODULE Spec2Model ----
(***************************************************************************)
(* Queue-backed worker runtime of ttg-distributed-compute.                 *)
(*                                                                         *)
(* Two queue backends behind one worker loop:                              *)
(*   "redis"    : src/src/queue_utils.py    (TaskQueue, Redis Streams)     *)
(*   "rabbitmq" : src/src/rabbitmq_queue.py (RabbitMQTaskQueue)            *)
(* and the worker that drives them: src/src/worker.py (QueueWorker).       *)
(*                                                                         *)
(* Every backend call of a worker is one atomic step; the steps of         *)
(* different workers interleave freely.  Wall-clock time is not counted:   *)
(* the idle time of a pending entry advances by Tick, and the periodic     *)
(* stale check is due or not due nondeterministically.                     *)
(***************************************************************************)
EXTENDS Naturals, Integers, Sequences, FiniteSets, TLC

VARIABLES
    \* configuration snapshot (immutable per run)
    backend,            \* QUEUE_BACKEND: "redis" | "rabbitmq"
    total_parameters,   \* TOTAL_PARAMETERS
    chunk_size,         \* CHUNK_SIZE
    max_retries,        \* RABBITMQ_MAX_RETRIES
    claim_count,        \* the count argument of claim_stale_tasks
    worker_id,          \* WORKER_ID of each worker process
    \* Redis Streams backend
    stream,             \* ttg:tasks, append-only; message id = position
    group_exists,       \* consumer group ttg-workers created on ttg:tasks
    last_delivered,     \* the group's last-delivered id
    pel,                \* pending entries list: message id -> [consumer, idle]
    \* RabbitMQ backend
    task_queue,         \* ttg.tasks (ready messages, FIFO)
    unacked,            \* per worker channel: the delivery not yet acked
    retry_queue,        \* ttg.tasks.retry (TTL, dead-letters to ttg.tasks)
    dlq,                \* ttg.tasks.dlq
    \* result container (ttg:results / ttg.results)
    results,
    \* history: the chunk_ids initialize_tasks has inserted, in order
    seeded,
    \* history: the chunk_ids whose ack on the success path has succeeded
    acked,
    \* worker processes
    pc,                 \* position of each worker in QueueWorker.run
    task,               \* the task being processed
    nres,               \* len(results) inside _process_chunk
    kill_now,           \* GracefulKiller.kill_now
    consecutive_empty,  \* consecutive_empty of _process_tasks
    ctx,                \* which stale check is running: "none"|"periodic"|"forced"
    pending,            \* the XPENDING snapshot of claim_stale_tasks
    claimed,            \* claimed_tasks still to be processed
    n_claimed,          \* len(claimed_tasks)
    seed_i,             \* chunk_id loop variable of initialize_tasks
    \* environment
    events,             \* crashes, restarts and signals so far
    exit_code,          \* the code main passes to sys.exit, -1 while it runs
    link,               \* the connection of each worker to the backend
    attempt,            \* attempts made by connect(retry=True) so far
    chunks_processed,   \* QueueWorker.chunks_processed
    total_workers,      \* TOTAL_WORKERS (static mode)
    batch_size,         \* BATCH_SIZE (static mode)
    range_start,        \* DistributedWorker.start_param
    range_end,          \* DistributedWorker.end_param
    current,            \* current of DistributedWorker.run
    batch_end,          \* batch_end of DistributedWorker.run
    param_id,           \* param_id of the loop of _process_batch
    processed_count     \* DistributedWorker.processed_count

cfgVars    == <<backend, total_parameters, chunk_size, max_retries, claim_count,
               worker_id, total_workers, batch_size>>
redisVars  == <<stream, group_exists, last_delivered, pel>>
rabbitVars == <<task_queue, unacked, retry_queue, dlq>>
localVars  == <<task, nres, consecutive_empty, ctx, pending, claimed, n_claimed, seed_i>>
envVars    == <<events>>
outVars    == <<exit_code>>
connVars   == <<link, attempt>>
countVars  == <<chunks_processed>>
staticVars == <<range_start, range_end, current, batch_end, param_id,
                processed_count>>
vars == <<backend, total_parameters, chunk_size, max_retries, claim_count,
          worker_id, stream,
          group_exists,
          last_delivered, pel, task_queue, unacked, retry_queue, dlq, results,
          seeded, acked,
          pc, task, nres, kill_now, consecutive_empty, ctx, pending, claimed,
          n_claimed, seed_i, events, exit_code, link, attempt,
          chunks_processed, total_workers, batch_size, range_start, range_end,
          current, batch_end, param_id, processed_count>>

(***************************************************************************)
(* Bounds of the model and program constants.                              *)
(***************************************************************************)
TotalParameters == 3     \* TOTAL_PARAMETERS of the worker runs
MaxBatchSize == 2        \* largest BATCH_SIZE of the static workers
ChunkSize == 2           \* CHUNK_SIZE of the worker runs
MaxSeedParams == 7       \* seed(N, S) is explored for N in 1..MaxSeedParams
MaxSeedChunk == 4        \* and S in 1..MaxSeedChunk
idle_timeout_seconds == 5  \* IDLE_TIMEOUT_SECONDS
stale_threshold_ms == 1    \* STALE_THRESHOLD_MS, in ticks
MaxRetries == 1            \* RABBITMQ_MAX_RETRIES is at most MaxRetries
MaxEvents == 2            \* crashes + restarts + signals of a run

MAX_RETRIES == 3         \* attempts of connect(retry=True)
ZFILL_WIDTH == 5         \* str(chunk_id).zfill(5)
BLOCK_TIME_SECONDS == 5  \* block_time_seconds
STALE_CLAIM_COUNT == 5   \* claim_stale_tasks(count=5)

\* WORKER_ID of the worker processes: AllWorkers exist, Workers are started
\* in the full specification, the third one only in the start-up race
MaxWorkerId == 2
AllWorkers == 0..MaxWorkerId
Workers == {0, 1}
Backends == {"redis", "rabbitmq"}

Min(a, b) == IF a <= b THEN a ELSE b
Max(a, b) == IF a >= b THEN a ELSE b

(***************************************************************************)
(* str(n) as a sequence of decimal digits, zfill, and the order of strings.*)
(***************************************************************************)
RECURSIVE Str(_)
Str(n) == IF n < 10 THEN <<n>> ELSE Str(n \div 10) \o <<n % 10>>

Zfill(s, width) ==
    IF Len(s) >= width THEN s
    ELSE [i \in 1..(width - Len(s)) |-> 0] \o s

\* s < t for Python strings of digits (lexicographic)
StrLess(s, t) ==
    \E k \in 1..(Min(Len(s), Len(t)) + 1) :
        /\ \A j \in 1..(k - 1) : s[j] = t[j]
        /\ \/ k = Len(s) + 1 /\ k <= Len(t)
           \/ k <= Len(s) /\ k <= Len(t) /\ s[k] < t[k]

ChunkIdStr(chunk_id) == Zfill(Str(chunk_id), ZFILL_WIDTH)

(***************************************************************************)
(* initialize_tasks: the chunk arithmetic, the same on both backends.      *)
(***************************************************************************)
NumChunks(total_params, size) == (total_params + size - 1) \div size

EndParamNoClamp(start_param, size, total_params) == start_param + size

EndParam(start_param, size, total_params) ==
    Min(start_param + size, total_params)

\* task_data of chunk number i (the Redis dictionary)
TaskData(i, total_params, size) ==
    LET start_param == i * size
        end_param == EndParam(start_param, size, total_params)
    IN [chunk_id |-> ChunkIdStr(i),
        start_param |-> start_param,
        end_param |-> end_param,
        params_count |-> end_param - start_param,
        total_params |-> total_params,
        total_chunks |-> NumChunks(total_params, size),
        status |-> "pending"]

\* the RabbitMQ message body: the same plus retry_count = 0
TaskDataRabbit(i, total_params, size) ==
    LET t == TaskData(i, total_params, size)
    IN [chunk_id |-> t.chunk_id,
        start_param |-> t.start_param,
        end_param |-> t.end_param,
        params_count |-> t.params_count,
        total_params |-> t.total_params,
        total_chunks |-> t.total_chunks,
        status |-> t.status,
        retry_count |-> 0]

NoTask == [chunk_id |-> <<>>]

(***************************************************************************)
(* Backend primitives.                                                     *)
(***************************************************************************)
\* get_stream_length: XLEN ttg:tasks / message_count of ttg.tasks
get_stream_length ==
    IF backend = "redis" THEN Len(stream) ELSE Len(task_queue)

\* the ids of a set of PEL entries in increasing order (XPENDING - + order)
RECURSIVE SortedIds(_)
SortedIds(ids) ==
    IF ids = {} THEN <<>>
    ELSE LET m == CHOOSE x \in ids : \A y \in ids : x <= y
         IN <<m>> \o SortedIds(ids \ {m})

PelEntry(id) == CHOOSE e \in pel : e.message_id = id

\* get_pending_tasks(count): XPENDING ttg:tasks ttg-workers - + count
get_pending_tasks(count) ==
    LET ids == SortedIds({e.message_id : e \in pel})
        n == Min(count, Len(ids))
    IN [k \in 1..n |->
            [message_id |-> ids[k],
             consumer |-> PelEntry(ids[k]).consumer,
             idle_time_ms |-> PelEntry(ids[k]).idle_time_ms]]

\* the entries of the snapshot the loop of claim_stale_tasks still acts on:
\* those before the first stale one are skipped without any call
RECURSIVE SkipFresh(_, _)
SkipFresh(snapshot, min_idle_ms) ==
    IF snapshot = <<>> THEN <<>>
    ELSE IF Head(snapshot).idle_time_ms >= min_idle_ms THEN snapshot
    ELSE SkipFresh(Tail(snapshot), min_idle_ms)

\* XCLAIM id min_idle_time: transfers the entry when it is pending and idle
XClaimable(id, min_idle_ms) ==
    \E e \in pel : e.message_id = id /\ e.idle_time_ms >= min_idle_ms

\* task_data as get_next_task returns it (message_id added)
Delivered(t, id, w) ==
    LET d == [chunk_id |-> t.chunk_id,
              start_param |-> t.start_param,
              end_param |-> t.end_param,
              params_count |-> t.params_count,
              total_params |-> t.total_params,
              total_chunks |-> t.total_chunks,
              status |-> t.status,
              retry_count |-> IF backend = "rabbitmq" THEN t.retry_count ELSE 0,
              message_id |-> id,
              consumer |-> w]
    IN IF "last_error" \in DOMAIN t
       THEN [f \in DOMAIN d \cup {"last_error"} |->
                IF f = "last_error" THEN t.last_error ELSE d[f]]
       ELSE d

\* task_data as claim_stale_tasks returns it: reclaimed, previous_consumer
Reclaimed(t, id, w, prev) ==
    LET d == Delivered(t, id, w)
    IN [f \in DOMAIN d \cup {"reclaimed", "previous_consumer"} |->
           IF f = "reclaimed" THEN TRUE
           ELSE IF f = "previous_consumer" THEN prev
           ELSE d[f]]

\* the message a delivery came from (the body, without the delivery fields)
Body(t) == [f \in DOMAIN t \ {"message_id", "consumer"} |-> t[f]]

\* max_empty_reads of _process_tasks
max_empty_reads == Max(1, idle_timeout_seconds \div BLOCK_TIME_SECONDS)

Stopped(w) == pc[w] \in {"idle_exit", "kill_exit", "failed", "crashed", "raised"}
Running(w) == ~Stopped(w)

\* the channel of worker w closes: RabbitMQ requeues its unacked delivery
RequeuedReset(w) ==
    IF backend = "rabbitmq" /\ unacked[w] # NoTask
    THEN <<[unacked[w] EXCEPT !.retry_count = 0]>> \o task_queue
    ELSE task_queue
Requeued(w) ==
    IF backend = "rabbitmq" /\ unacked[w] # NoTask
    THEN <<unacked[w]>> \o task_queue
    ELSE task_queue

ResetLocal(w) ==
    /\ task' = [task EXCEPT ![w] = NoTask]
    /\ nres' = [nres EXCEPT ![w] = 0]
    /\ consecutive_empty' = [consecutive_empty EXCEPT ![w] = 0]
    /\ ctx' = [ctx EXCEPT ![w] = "none"]
    /\ pending' = [pending EXCEPT ![w] = <<>>]
    /\ claimed' = [claimed EXCEPT ![w] = <<>>]
    /\ n_claimed' = [n_claimed EXCEPT ![w] = 0]
    /\ seed_i' = [seed_i EXCEPT ![w] = 0]

\* the process of worker w ends (run returns, finally: disconnect)
Exit(w, how) ==
    /\ pc' = [pc EXCEPT ![w] = how]
    /\ task_queue' = Requeued(w)
    /\ unacked' = [unacked EXCEPT ![w] = NoTask]
    /\ ResetLocal(w)

(***************************************************************************)
(* Init: every worker process is about to run, the backend is fresh.       *)
(***************************************************************************)
InitState ==
    /\ stream = <<>>
    /\ group_exists = FALSE
    /\ last_delivered = 0
    /\ pel = {}
    /\ task_queue = <<>>
    /\ unacked = [w \in AllWorkers |-> NoTask]
    /\ retry_queue = <<>>
    /\ dlq = <<>>
    /\ results = <<>>
    /\ seeded = <<>>
    /\ acked = {}
    /\ pc = [w \in AllWorkers |-> "boot"]
    /\ task = [w \in AllWorkers |-> NoTask]
    /\ nres = [w \in AllWorkers |-> 0]
    /\ kill_now = [w \in AllWorkers |-> FALSE]
    /\ consecutive_empty = [w \in AllWorkers |-> 0]
    /\ ctx = [w \in AllWorkers |-> "none"]
    /\ pending = [w \in AllWorkers |-> <<>>]
    /\ claimed = [w \in AllWorkers |-> <<>>]
    /\ n_claimed = [w \in AllWorkers |-> 0]
    /\ seed_i = [w \in AllWorkers |-> 0]
    /\ events = 0
    /\ exit_code = [w \in AllWorkers |-> -1]
    /\ link = [w \in AllWorkers |-> "up"]
    /\ attempt = [w \in AllWorkers |-> 0]
    /\ chunks_processed = [w \in AllWorkers |-> 0]
    /\ range_start = [w \in AllWorkers |-> 0]
    /\ range_end = [w \in AllWorkers |-> 0]
    /\ current = [w \in AllWorkers |-> 0]
    /\ batch_end = [w \in AllWorkers |-> 0]
    /\ param_id = [w \in AllWorkers |-> 0]
    /\ processed_count = [w \in AllWorkers |-> 0]

Init ==
    /\ backend \in Backends
    /\ total_parameters = TotalParameters
    /\ chunk_size = ChunkSize
    /\ max_retries = MaxRetries
    /\ claim_count = STALE_CLAIM_COUNT
    /\ worker_id = [w \in AllWorkers |-> w]
    /\ total_workers = MaxWorkerId + 1
    /\ batch_size = MaxBatchSize
    /\ InitState

(***************************************************************************)
(* QueueWorker._maybe_initialize_tasks                                     *)
(***************************************************************************)
\* "if self.worker_id == 0"
SeederAny(w) == TRUE
Seeder(w) == worker_id[w] = 0

MaybeInitializeTasks(w) ==
    /\ pc[w] = "boot"
    /\ pc' = [pc EXCEPT ![w] =
                IF Seeder(w) /\ get_stream_length = 0 THEN "init" ELSE "loop"]
    /\ UNCHANGED <<cfgVars, staticVars, countVars, outVars, connVars, redisVars, rabbitVars, results, seeded, acked, localVars,
                   kill_now, envVars>>

(***************************************************************************)
(* initialize_tasks(total_params, chunk_size, force = False)               *)
(***************************************************************************)
\* ensure_stream_exists and the check "current_length > 0 and not force"
InitializeTasksCheck(w) ==
    /\ pc[w] = "init"
    /\ group_exists' = IF backend = "redis" THEN TRUE ELSE group_exists
    /\ IF get_stream_length > 0
       THEN pc' = [pc EXCEPT ![w] = "loop"]          \* return 0
       ELSE pc' = [pc EXCEPT ![w] = "seed_add"]
    /\ seed_i' = [seed_i EXCEPT ![w] = 0]
    /\ UNCHANGED <<cfgVars, staticVars, countVars, outVars, connVars, stream, last_delivered, pel, rabbitVars, results, seeded, acked,
                   task, nres, consecutive_empty, ctx, pending, claimed,
                   n_claimed, kill_now, envVars>>

\* one iteration of "for chunk_id in range(num_chunks)": XADD / basic_publish
InitializeTasksAdd(w) ==
    /\ pc[w] = "seed_add"
    /\ seed_i[w] < NumChunks(total_parameters, chunk_size)
    /\ IF backend = "redis"
       THEN /\ stream' = Append(stream,
                           TaskData(seed_i[w], total_parameters, chunk_size))
            /\ UNCHANGED task_queue
       ELSE /\ task_queue' = Append(task_queue,
                           TaskDataRabbit(seed_i[w], total_parameters, chunk_size))
            /\ UNCHANGED stream
    /\ seeded' = Append(seeded, ChunkIdStr(seed_i[w]))
    /\ UNCHANGED acked
    /\ seed_i' = [seed_i EXCEPT ![w] = seed_i[w] + 1]
    /\ pc' = [pc EXCEPT ![w] =
                IF seed_i[w] + 1 = NumChunks(total_parameters, chunk_size)
                THEN "loop" ELSE "seed_add"]
    /\ UNCHANGED <<cfgVars, staticVars, countVars, outVars, connVars, group_exists, last_delivered, pel, unacked,
                   retry_queue, dlq, results, task, nres, consecutive_empty,
                   ctx, pending, claimed, n_claimed, kill_now, envVars>>


(***************************************************************************)
(* QueueWorker._process_tasks: "while not self.killer.kill_now"            *)
(***************************************************************************)
\* the loop condition fails: the worker leaves with status "interrupted"
LoopExit(w) ==
    /\ pc[w] = "loop"
    /\ kill_now[w]
    /\ Exit(w, "kill_exit")
    /\ UNCHANGED <<cfgVars, staticVars, countVars, outVars, connVars, redisVars, retry_queue, dlq, results, seeded, acked, kill_now,
                   envVars>>

\* _check_and_claim_stale_tasks: the periodic check is due
\* ("current_time - last_stale_check_time >= stale_check_interval_seconds");
\* when it is not, the worker goes straight to get_next_task (AtClaim).
\* On RabbitMQ claim_stale_tasks returns [] without a call: nothing to do.
StaleCheckDue(w) ==
    /\ pc[w] = "loop"
    /\ ~kill_now[w]
    /\ backend = "redis"
    /\ pc' = [pc EXCEPT ![w] = "stale_scan"]
    /\ ctx' = [ctx EXCEPT ![w] = "periodic"]
    /\ UNCHANGED <<cfgVars, staticVars, countVars, outVars, connVars, redisVars, rabbitVars, results, seeded, acked, task, nres,
                   consecutive_empty, pending, claimed, n_claimed, seed_i,
                   kill_now, envVars>>

\* "if stale_recovered > 0" after the forced check: keep going, else break
StaleRecoveredAlways(n) == TRUE
StaleRecovered(n) == n > 0

\* _check_and_claim_stale_tasks returns n to _process_tasks
StaleReturn(w, n) ==
    /\ ctx' = [ctx EXCEPT ![w] = "none"]
    /\ pending' = [pending EXCEPT ![w] = <<>>]
    /\ claimed' = [claimed EXCEPT ![w] = <<>>]
    /\ n_claimed' = [n_claimed EXCEPT ![w] = 0]
    /\ task' = [task EXCEPT ![w] = NoTask]
    /\ nres' = [nres EXCEPT ![w] = 0]
    /\ UNCHANGED seed_i
    /\ IF ctx[w] = "periodic"
       THEN /\ consecutive_empty' =
                   [consecutive_empty EXCEPT ![w] = IF n > 0 THEN 0 ELSE @]
            /\ pc' = [pc EXCEPT ![w] = "claim"]
            /\ UNCHANGED <<task_queue, unacked>>
       ELSE IF StaleRecovered(n)
            THEN /\ consecutive_empty' = [consecutive_empty EXCEPT ![w] = 0]
                 /\ pc' = [pc EXCEPT ![w] = "loop"]       \* continue
                 /\ UNCHANGED <<task_queue, unacked>>
            ELSE /\ consecutive_empty' = [consecutive_empty EXCEPT ![w] = 0]
                 /\ pc' = [pc EXCEPT ![w] = "idle_exit"]  \* break
                 /\ task_queue' = Requeued(w)
                 /\ unacked' = [unacked EXCEPT ![w] = NoTask]

\* claim_stale_tasks on Redis: pending = get_pending_tasks(count * 2)
ClaimStaleTasksScan(w) ==
    /\ pc[w] = "stale_scan"
    /\ backend = "redis"
    /\ pending' = [pending EXCEPT ![w] =
                      IF group_exists
                      THEN get_pending_tasks(claim_count * 2)
                      ELSE <<>>]
    /\ claimed' = [claimed EXCEPT ![w] = <<>>]
    /\ pc' = [pc EXCEPT ![w] = "xclaim"]
    /\ UNCHANGED <<cfgVars, staticVars, countVars, outVars, connVars, redisVars, rabbitVars, results, seeded, acked, task, nres,
                   consecutive_empty, ctx, n_claimed, seed_i, kill_now,
                   envVars>>

\* one XCLAIM of the loop "for task_info in pending"
ClaimStaleTasksXClaim(w) ==
    /\ pc[w] = "xclaim"
    /\ LET todo == SkipFresh(pending[w], stale_threshold_ms)
       IN /\ todo # <<>>
          /\ LET info == Head(todo)
             IN IF XClaimable(info.message_id, stale_threshold_ms)
                THEN /\ pel' = (pel \ {PelEntry(info.message_id)}) \cup
                                 {[message_id |-> info.message_id,
                                   consumer |-> w,
                                   idle_time_ms |-> 0]}
                     /\ claimed' = [claimed EXCEPT ![w] =
                            Append(@, Reclaimed(stream[info.message_id],
                                                info.message_id, w,
                                                info.consumer))]
                     /\ pending' = [pending EXCEPT ![w] =
                            IF Len(claimed[w]) + 1 >= claim_count
                            THEN <<>> ELSE Tail(todo)]
                ELSE /\ pending' = [pending EXCEPT ![w] = Tail(todo)]
                     /\ UNCHANGED <<pel, claimed>>
    /\ UNCHANGED <<cfgVars, staticVars, countVars, outVars, connVars, stream, group_exists, last_delivered, rabbitVars,
                   results, seeded, acked, pc, task, nres, consecutive_empty, ctx, n_claimed,
                   seed_i, kill_now, envVars>>

\* the loop over pending is over: "if not claimed_tasks: return 0"
ClaimStaleTasksNone(w) ==
    /\ pc[w] = "xclaim"
    /\ SkipFresh(pending[w], stale_threshold_ms) = <<>>
    /\ claimed[w] = <<>>
    /\ StaleReturn(w, 0)
    /\ UNCHANGED <<cfgVars, staticVars, countVars, outVars, connVars, redisVars, retry_queue, dlq, results, seeded, acked, kill_now,
                   envVars>>

\* ... or there are claimed tasks to process
ClaimStaleTasksSome(w) ==
    /\ pc[w] = "xclaim"
    /\ SkipFresh(pending[w], stale_threshold_ms) = <<>>
    /\ claimed[w] # <<>>
    /\ n_claimed' = [n_claimed EXCEPT ![w] = Len(claimed[w])]
    /\ pending' = [pending EXCEPT ![w] = <<>>]
    /\ pc' = [pc EXCEPT ![w] = "rec"]
    /\ UNCHANGED <<cfgVars, staticVars, countVars, outVars, connVars, redisVars, rabbitVars, results, seeded, acked, task, nres,
                   consecutive_empty, ctx, claimed, seed_i, kill_now, envVars>>

\* "for task in claimed_tasks: if self.killer.kill_now: break"
RecoverNext(w) ==
    /\ pc[w] = "rec"
    /\ claimed[w] # <<>>
    /\ ~kill_now[w]
    /\ task' = [task EXCEPT ![w] = Head(claimed[w])]
    /\ claimed' = [claimed EXCEPT ![w] = Tail(claimed[w])]
    /\ pc' = [pc EXCEPT ![w] = "proc"]
    /\ UNCHANGED <<cfgVars, staticVars, countVars, outVars, connVars, redisVars, rabbitVars, results, seeded, acked, nres,
                   consecutive_empty, ctx, pending, n_claimed, seed_i,
                   kill_now, envVars>>

\* the loop is over or broken: "return len(claimed_tasks)"
RecoverDone(w) ==
    /\ pc[w] = "rec"
    /\ claimed[w] = <<>> \/ kill_now[w]
    /\ StaleReturn(w, n_claimed[w])
    /\ UNCHANGED <<cfgVars, staticVars, countVars, outVars, connVars, redisVars, retry_queue, dlq, results, seeded, acked, kill_now,
                   envVars>>


(***************************************************************************)
(* get_next_task(consumer_name, block_ms = 5000)                           *)
(***************************************************************************)
\* the worker is about to call get_next_task: after a periodic stale
\* check, or at the top of the loop when no check is due
AtClaim(w) == pc[w] = "claim" \/ (pc[w] = "loop" /\ ~kill_now[w])

\* a task is there to deliver
TaskAvailable ==
    IF backend = "redis"
    THEN group_exists /\ last_delivered < Len(stream)
    ELSE task_queue # <<>>

\* XREADGROUP ... '>' / basic_get returned a message
GetNextTask(w) ==
    /\ AtClaim(w)
    /\ TaskAvailable
    /\ IF backend = "redis"
       THEN /\ last_delivered' = last_delivered + 1
            /\ pel' = pel \cup {[message_id |-> last_delivered + 1,
                                 consumer |-> w,
                                 idle_time_ms |-> 0]}
            /\ task' = [task EXCEPT ![w] =
                          Delivered(stream[last_delivered + 1],
                                    last_delivered + 1, w)]
            /\ UNCHANGED <<task_queue, unacked>>
       ELSE /\ task_queue' = Tail(task_queue)
            /\ unacked' = [unacked EXCEPT ![w] = Head(task_queue)]
            /\ task' = [task EXCEPT ![w] = Delivered(Head(task_queue), 1, w)]
            /\ UNCHANGED <<last_delivered, pel>>
    /\ consecutive_empty' = [consecutive_empty EXCEPT ![w] = 0]
    /\ pc' = [pc EXCEPT ![w] = "proc"]
    /\ UNCHANGED <<cfgVars, staticVars, countVars, outVars, connVars, stream, group_exists, retry_queue, dlq, results, seeded, acked,
                   nres, ctx, pending, claimed, n_claimed, seed_i, kill_now,
                   envVars>>

\* XREADGROUP on a stream without the consumer group: ResponseError
\* (NOGROUP), re-raised; run() catches it and reports status "failed"
GetNextTaskNoGroup(w) ==
    /\ AtClaim(w)
    /\ backend = "redis"
    /\ ~group_exists
    /\ Exit(w, "failed")
    /\ UNCHANGED <<cfgVars, staticVars, countVars, outVars, connVars, redisVars, retry_queue, dlq, results, seeded, acked, kill_now,
                   envVars>>

\* nothing arrived within block_ms: "if task is None"
GetNextTaskNone(w) ==
    /\ AtClaim(w)
    /\ ~TaskAvailable
    /\ backend = "redis" => group_exists
    /\ IF consecutive_empty[w] + 1 >= max_empty_reads
       THEN \* "self.last_stale_check_time = 0": force a stale check
            IF backend = "redis"
            THEN /\ consecutive_empty' = [consecutive_empty EXCEPT ![w] = @ + 1]
                 /\ ctx' = [ctx EXCEPT ![w] = "forced"]
                 /\ pc' = [pc EXCEPT ![w] = "stale_scan"]
                 /\ UNCHANGED <<task_queue, unacked>>
            ELSE \* RabbitMQ claim_stale_tasks returns []: break
                 /\ consecutive_empty' = [consecutive_empty EXCEPT ![w] = 0]
                 /\ pc' = [pc EXCEPT ![w] = "idle_exit"]
                 /\ task_queue' = Requeued(w)
                 /\ unacked' = [unacked EXCEPT ![w] = NoTask]
                 /\ UNCHANGED ctx
       ELSE /\ consecutive_empty' = [consecutive_empty EXCEPT ![w] = @ + 1]
            /\ pc' = [pc EXCEPT ![w] = "loop"]
            /\ UNCHANGED <<ctx, task_queue, unacked>>
    /\ UNCHANGED <<cfgVars, staticVars, countVars, outVars, connVars, redisVars, retry_queue, dlq, results, seeded, acked, task, nres,
                   pending, claimed, n_claimed, seed_i, kill_now, envVars>>

(***************************************************************************)
(* QueueWorker._process_chunk                                              *)
(***************************************************************************)
\* "random.random() < self.simulate_fault_rate": raise RuntimeError.
\* In the claim path the handler of _process_tasks runs (nack_task when
\* the backend has one); in the stale path the handler of
\* _check_and_claim_stale_tasks returns 0.
\* "except Exception as task_error": nack_task when the backend has one,
\* then "continue"
AfterFaultFatal(b) == "failed"
AfterFault(b) == IF b = "rabbitmq" THEN "nack_publish" ELSE "loop"

ProcessChunkFault(w) ==
    /\ pc[w] = "proc"
    /\ IF ctx[w] = "none"
       THEN /\ pc' = [pc EXCEPT ![w] = AfterFault(backend)]
            /\ task' = IF backend = "rabbitmq" THEN task
                       ELSE [task EXCEPT ![w] = NoTask]
            /\ UNCHANGED <<task_queue, unacked, nres, consecutive_empty, ctx,
                           pending, claimed, n_claimed, seed_i>>
       ELSE StaleReturn(w, 0)
    /\ UNCHANGED <<cfgVars, staticVars, countVars, outVars, connVars, redisVars, retry_queue, dlq, results, seeded, acked, kill_now,
                   envVars>>

\* what the caller does with a chunk whose loop was left by "break":
\* _process_chunk returns the summary of the partial results with
\* interrupted = True, and neither caller reads that flag
InterruptedChunkSkipsPublish == "ack"
InterruptedChunkGoesTo == "publish"

\* One iteration of "for param_id in range(start_param, end_param)", the
\* first one at "proc" (no fault, results = []): either "if
\* self.killer.kill_now: break", or _compute_parameter(param_id) and
\* results.append(result).  When the range is exhausted _process_chunk
\* returns result_summary with count = len(results).
ComputeParameter(w) ==
    /\ pc[w] \in {"proc", "compute"}
    /\ LET done == IF pc[w] = "proc" THEN 0 ELSE nres[w]
       IN IF kill_now[w]
          THEN /\ nres' = [nres EXCEPT ![w] = done]
               /\ pc' = [pc EXCEPT ![w] = InterruptedChunkGoesTo]
          ELSE /\ nres' = [nres EXCEPT ![w] = done + 1]
               /\ pc' = [pc EXCEPT ![w] =
                          IF task[w].start_param + done + 1 >= task[w].end_param
                          THEN "publish" ELSE "compute"]
    \* "self.chunks_processed += 1" once _process_chunk has returned
    /\ chunks_processed' = [chunks_processed EXCEPT ![w] =
                               IF pc'[w] = "compute" THEN @ ELSE @ + 1]
    /\ UNCHANGED <<cfgVars, staticVars, outVars, connVars, redisVars, rabbitVars, results, seeded, acked, task,
                   consecutive_empty, ctx, pending, claimed, n_claimed,
                   seed_i, kill_now, envVars>>

(***************************************************************************)
(* publish_result, ack_task, nack_task                                     *)
(***************************************************************************)
ResultMessage(w) ==
    [chunk_id |-> task[w].chunk_id,
     worker_id |-> w,
     status |-> "completed",
     count |-> nres[w]]

\* XADD ttg:results / basic_publish to ttg.results.exchange
PublishResult(w) ==
    /\ pc[w] = "publish"
    /\ results' = Append(results, ResultMessage(w))
    /\ UNCHANGED <<seeded, acked>>
    /\ pc' = [pc EXCEPT ![w] = "ack"]
    /\ UNCHANGED <<cfgVars, staticVars, countVars, outVars, connVars, redisVars, rabbitVars, localVars, kill_now,
                   envVars>>

\* XACK ttg:tasks ttg-workers id: the entry leaves the PEL, whoever owns it
XAck(id) == {e \in pel : e.message_id # id}

\* ack_task(task['message_id']), then the next iteration of the caller
\* "if ack_count > 0" / basic_ack of a delivery of this channel
AckSucceeds(w) ==
    IF backend = "redis"
    THEN \E e \in pel : e.message_id = task[w].message_id
    ELSE unacked[w] # NoTask

AckTask(w) ==
    /\ pc[w] = "ack"
    /\ IF backend = "redis"
       THEN /\ pel' = XAck(task[w].message_id)
            /\ UNCHANGED unacked
       ELSE /\ unacked' = [unacked EXCEPT ![w] = NoTask]
            /\ UNCHANGED pel
    /\ acked' = IF AckSucceeds(w) THEN acked \cup {task[w].chunk_id} ELSE acked
    /\ task' = [task EXCEPT ![w] = NoTask]
    /\ nres' = [nres EXCEPT ![w] = 0]
    /\ pc' = [pc EXCEPT ![w] = IF ctx[w] = "none" THEN "loop" ELSE "rec"]
    /\ UNCHANGED <<cfgVars, staticVars, countVars, outVars, connVars, stream, group_exists, last_delivered, task_queue,
                   retry_queue, dlq, results, seeded, consecutive_empty, ctx, pending,
                   claimed, n_claimed, seed_i, kill_now, envVars>>

\* nack_task: "updated" with retry_count + 1
\* "updated": retry_count + 1, last_error = reason
UpdatedSameCount(t) ==
    [f \in DOMAIN Body(t) \cup {"last_error"} |->
        IF f = "last_error" THEN "simulated fault" ELSE Body(t)[f]]
Updated(t) ==
    [f \in DOMAIN Body(t) \cup {"last_error"} |->
        IF f = "last_error" THEN "simulated fault"
        ELSE IF f = "retry_count" THEN t.retry_count + 1
        ELSE Body(t)[f]]

\* "updated['status'] = 'dead_lettered'"
DeadLetteredKeepStatus(t) == Updated(t)
DeadLettered(t) == [Updated(t) EXCEPT !.status = "dead_lettered"]

\* "if retry_count < self.max_retries"
RetryAllowedOnceMore(retry_count) == retry_count <= max_retries
RetryAllowed(retry_count) == retry_count < max_retries

\* nack_task, first call: basic_publish to the retry or the DLQ exchange
NackTaskPublish(w) ==
    /\ pc[w] = "nack_publish"
    /\ IF RetryAllowed(task[w].retry_count)
       THEN /\ retry_queue' = Append(retry_queue, Updated(task[w]))
            /\ UNCHANGED dlq
       ELSE /\ dlq' = Append(dlq, DeadLettered(task[w]))
            /\ UNCHANGED retry_queue
    /\ pc' = [pc EXCEPT ![w] = "nack_ack"]
    /\ UNCHANGED <<cfgVars, staticVars, countVars, outVars, connVars, redisVars, task_queue, unacked, results, seeded, acked,
                   localVars, kill_now, envVars>>

\* nack_task, second call: "return self.ack_task(message_id)"; continue
NackTaskAck(w) ==
    /\ pc[w] = "nack_ack"
    /\ unacked' = [unacked EXCEPT ![w] = NoTask]
    /\ task' = [task EXCEPT ![w] = NoTask]
    /\ pc' = [pc EXCEPT ![w] = "loop"]
    /\ UNCHANGED <<cfgVars, staticVars, countVars, outVars, connVars, redisVars, task_queue, retry_queue, dlq, results, seeded, acked,
                   nres, consecutive_empty, ctx, pending, claimed, n_claimed,
                   seed_i, kill_now, envVars>>

(***************************************************************************)
(* The environment: the broker's timers, signals, crashes, restarts.       *)
(***************************************************************************)
\* time passes: every pending entry gets older
Tick ==
    /\ \E e \in pel : e.idle_time_ms < stale_threshold_ms
    /\ pel' = {[e EXCEPT !.idle_time_ms = Min(@ + 1, stale_threshold_ms)] :
                 e \in pel}
    /\ UNCHANGED <<cfgVars, staticVars, countVars, outVars, connVars, stream, group_exists, last_delivered, rabbitVars,
                   results, seeded, acked, pc, localVars, kill_now, envVars>>

\* x-message-ttl of ttg.tasks.retry expires: dead-lettered to ttg.tasks
RetryExpire ==
    /\ retry_queue # <<>>
    /\ task_queue' = Append(task_queue, Head(retry_queue))
    /\ retry_queue' = Tail(retry_queue)
    /\ UNCHANGED <<cfgVars, staticVars, countVars, outVars, connVars, redisVars, unacked, dlq, results, seeded, acked, pc, localVars,
                   kill_now, envVars>>

\* SIGTERM / SIGINT: GracefulKiller.exit_gracefully
ExitGracefully(w) ==
    /\ Running(w)
    /\ ~kill_now[w]
    /\ events < MaxEvents
    /\ events' = events + 1
    /\ kill_now' = [kill_now EXCEPT ![w] = TRUE]
    /\ UNCHANGED <<cfgVars, staticVars, countVars, outVars, connVars, redisVars, rabbitVars, results, seeded, acked, pc, localVars>>

\* the process is killed (SIGKILL, node loss): its connection closes
Crash(w) ==
    /\ Running(w)
    /\ events < MaxEvents
    /\ events' = events + 1
    /\ Exit(w, "crashed")
    /\ kill_now' = [kill_now EXCEPT ![w] = FALSE]
    /\ chunks_processed' = [chunks_processed EXCEPT ![w] = 0]
    /\ UNCHANGED <<cfgVars, staticVars, outVars, connVars, redisVars, retry_queue, dlq, results, seeded, acked>>

\* the process is started again with the same WORKER_ID
Restart(w) ==
    /\ Stopped(w)
    /\ events < MaxEvents
    /\ events' = events + 1
    /\ pc' = [pc EXCEPT ![w] = "boot"]
    /\ kill_now' = [kill_now EXCEPT ![w] = FALSE]
    /\ exit_code' = [exit_code EXCEPT ![w] = -1]
    /\ chunks_processed' = [chunks_processed EXCEPT ![w] = 0]
    /\ UNCHANGED <<cfgVars, staticVars, connVars, redisVars, rabbitVars, results, seeded, acked, localVars>>

(***************************************************************************)
(* Specifications.                                                         *)
(***************************************************************************)
Bootstrap(w) ==
    \/ MaybeInitializeTasks(w)
    \/ InitializeTasksCheck(w)
    \/ InitializeTasksAdd(w)

StaleRecovery(w) ==
    \/ StaleCheckDue(w)
    \/ ClaimStaleTasksScan(w)
    \/ ClaimStaleTasksXClaim(w)
    \/ ClaimStaleTasksNone(w)
    \/ ClaimStaleTasksSome(w)
    \/ RecoverNext(w)
    \/ RecoverDone(w)

Consume(w) ==
    \/ GetNextTask(w)
    \/ GetNextTaskNoGroup(w)
    \/ GetNextTaskNone(w)
    \/ ComputeParameter(w)
    \/ PublishResult(w)
    \/ AckTask(w)

Next ==
    \/ \E w \in Workers : Bootstrap(w)
    \/ \E w \in Workers : StaleRecovery(w)
    \/ \E w \in Workers : Consume(w)
    \/ \E w \in Workers : ProcessChunkFault(w)
    \/ \E w \in Workers : NackTaskPublish(w)
    \/ \E w \in Workers : NackTaskAck(w)
    \/ \E w \in Workers : ExitGracefully(w)
    \/ \E w \in Workers : LoopExit(w)
    \/ \E w \in Workers : Crash(w)
    \/ \E w \in Workers : Restart(w)
    \/ Tick
    \/ RetryExpire

Spec == Init /\ [][Next]_vars


\* seed(N, S) alone, for every N in 1..MaxSeedParams and S in 1..MaxSeedChunk:
\* worker 0 bootstraps against a fresh backend and nobody consumes
InitSeed ==
    /\ backend \in Backends
    /\ total_parameters \in 1..MaxSeedParams
    /\ chunk_size \in 1..MaxSeedChunk
    /\ max_retries = MaxRetries
    /\ claim_count = STALE_CLAIM_COUNT
    /\ worker_id = [w \in AllWorkers |-> w]
    /\ total_workers = MaxWorkerId + 1
    /\ batch_size = MaxBatchSize
    /\ InitState

NextSeed == Bootstrap(0)

SpecSeed == InitSeed /\ [][NextSeed]_vars

\* crash-free workers: no crash, no restart, no signal, no synthetic fault
NextCrashFree ==
    \/ \E w \in Workers : Bootstrap(w)
    \/ \E w \in Workers : StaleRecovery(w)
    \/ \E w \in Workers : Consume(w)
    \/ Tick

SpecCrashFree == Init /\ [][NextCrashFree]_vars

\* crash-free workers whose processing attempts may fail, each worker being
\* scheduled again and again (a process that can take a step takes one)
WorkerStep(w) ==
    \/ Bootstrap(w)
    \/ StaleRecovery(w)
    \/ Consume(w)
    \/ ProcessChunkFault(w)
    \/ NackTaskPublish(w)
    \/ NackTaskAck(w)

NextFaulty ==
    \/ \E w \in Workers : WorkerStep(w)
    \/ Tick
    \/ RetryExpire

\* the same workers under every RABBITMQ_MAX_RETRIES in 0..MaxRetries
InitFaulty ==
    /\ backend \in Backends
    /\ total_parameters = TotalParameters
    /\ chunk_size = ChunkSize
    /\ max_retries \in 0..MaxRetries
    /\ claim_count = STALE_CLAIM_COUNT
    /\ worker_id = [w \in AllWorkers |-> w]
    /\ total_workers = MaxWorkerId + 1
    /\ batch_size = MaxBatchSize
    /\ InitState

SpecFaulty == InitFaulty /\ [][NextFaulty]_vars

SpecFair ==
    /\ Init
    /\ [][NextFaulty]_vars
    /\ \A w \in Workers : WF_vars(WorkerStep(w))

\* S5: the broker backend with SIMULATE_FAULT_RATE = 1.0: every call of
\* _process_chunk raises, for every RABBITMQ_MAX_RETRIES in 0..MaxRetries
InitBroker ==
    /\ backend = "rabbitmq"
    /\ total_parameters = TotalParameters
    /\ chunk_size = ChunkSize
    /\ max_retries \in 0..MaxRetries
    /\ claim_count = STALE_CLAIM_COUNT
    /\ worker_id = [w \in AllWorkers |-> w]
    /\ total_workers = MaxWorkerId + 1
    /\ batch_size = MaxBatchSize
    /\ InitState

NextAllFail ==
    \/ \E w \in Workers : Bootstrap(w)
    \/ \E w \in Workers : GetNextTask(w)
    \/ \E w \in Workers : GetNextTaskNone(w)
    \/ \E w \in Workers : ProcessChunkFault(w)
    \/ \E w \in Workers : NackTaskPublish(w)
    \/ \E w \in Workers : NackTaskAck(w)
    \/ RetryExpire

SpecAllFail == InitBroker /\ [][NextAllFail]_vars

\* workers that may be signalled or killed at any point, without synthetic
\* faults and without restarts
NextCrash ==
    \/ \E w \in Workers : Bootstrap(w)
    \/ \E w \in Workers : StaleRecovery(w)
    \/ \E w \in Workers : Consume(w)
    \/ \E w \in Workers : ExitGracefully(w)
    \/ \E w \in Workers : LoopExit(w)
    \/ \E w \in Workers : Crash(w)
    \/ Tick

SpecCrash == Init /\ [][NextCrash]_vars

\* RabbitMQ workers whose attempts may fail and whose processes are killed
\* and started again; no signal is sent
InitRestart ==
    /\ backend = "rabbitmq"
    /\ total_parameters = TotalParameters
    /\ chunk_size = ChunkSize
    /\ max_retries = MaxRetries
    /\ claim_count = STALE_CLAIM_COUNT
    /\ worker_id = [w \in AllWorkers |-> w]
    /\ total_workers = MaxWorkerId + 1
    /\ batch_size = MaxBatchSize
    /\ InitState

NextRestart ==
    \/ \E w \in Workers : Bootstrap(w)
    \/ \E w \in Workers : GetNextTask(w)
    \/ \E w \in Workers : GetNextTaskNone(w)
    \/ \E w \in Workers : ComputeParameter(w)
    \/ \E w \in Workers : PublishResult(w)
    \/ \E w \in Workers : AckTask(w)
    \/ \E w \in Workers : ProcessChunkFault(w)
    \/ \E w \in Workers : NackTaskPublish(w)
    \/ \E w \in Workers : NackTaskAck(w)
    \/ \E w \in Workers : Crash(w)
    \/ \E w \in Workers : Restart(w)
    \/ RetryExpire

SpecRestart == InitRestart /\ [][NextRestart]_vars

\* S6: workers 0, 1 and 2 start together against a fresh backend and run
\* crash-free; no entry gets stale during the start-up (no Tick), so the
\* stale checks find nothing to claim
NextRace ==
    \/ \E w \in AllWorkers : Bootstrap(w)
    \/ \E w \in AllWorkers : StaleCheckDue(w)
    \/ \E w \in AllWorkers : ClaimStaleTasksScan(w)
    \/ \E w \in AllWorkers : ClaimStaleTasksNone(w)
    \/ \E w \in AllWorkers : Consume(w)

SpecRace == Init /\ [][NextRace]_vars

(***************************************************************************)
(* Vocabulary of the properties.                                           *)
(***************************************************************************)
Range(seq) == {seq[k] : k \in 1..Len(seq)}

\* ceil(n / s), from its definition
CeilDiv(n, s) == CHOOSE k \in 0..n : k * s >= n /\ (k = 0 \/ (k - 1) * s < n)

\* the chunk_ids of the batch, and the size of the range of each
BatchChunks == 0..(CeilDiv(total_parameters, chunk_size) - 1)
BatchChunkIds == {ChunkIdStr(i) : i \in BatchChunks}
ChunkNumber(cid) == CHOOSE i \in BatchChunks : ChunkIdStr(i) = cid
RangeSize(cid) ==
    Min(chunk_size, total_parameters - ChunkNumber(cid) * chunk_size)

\* the task container in insertion order, undelivered and delivered alike
Inserted == IF backend = "redis" THEN stream ELSE task_queue

\* where a chunk can be
Undelivered(cid) ==
    IF backend = "redis"
    THEN \E k \in (last_delivered + 1)..Len(stream) : stream[k].chunk_id = cid
    ELSE \E k \in 1..Len(task_queue) : task_queue[k].chunk_id = cid

\* the consumers holding an in-flight claim (claimed, not acked or released)
Holders(cid) ==
    IF backend = "redis"
    THEN {e.consumer : e \in {x \in pel : stream[x.message_id].chunk_id = cid}}
    ELSE {w \in Workers : unacked[w].chunk_id = cid}

InRetry(cid) == \E k \in 1..Len(retry_queue) : retry_queue[k].chunk_id = cid
DeadLetteredChunk(cid) ==
    \E k \in 1..Len(dlq) :
        dlq[k].chunk_id = cid /\ dlq[k].status = "dead_lettered"
RecordsOf(cid) == {k \in 1..Len(results) : results[k].chunk_id = cid}
HasFullResult(cid) ==
    \E k \in RecordsOf(cid) : results[k].count = RangeSize(cid)

AllStopped == \A w \in Workers : Stopped(w)

\* a worker whose parameter loop was left by "break" on the shutdown flag
Interrupted(w) ==
    /\ pc[w] \in {"publish", "ack"}
    /\ nres[w] < task[w].end_param - task[w].start_param

\* the claim of worker w on its task is still there
ClaimHeld(w) ==
    IF backend = "redis"
    THEN \E e \in pel : e.message_id = task[w].message_id
    ELSE unacked[w] # NoTask

\* the records a consumer keeps that reads the results in order and keeps
\* the first record of every chunk_id
FirstRecords ==
    {k \in 1..Len(results) :
        \A j \in 1..(k - 1) : results[j].chunk_id # results[k].chunk_id}

RECURSIVE SumCounts(_)
SumCounts(ks) ==
    IF ks = {} THEN 0
    ELSE LET k == CHOOSE x \in ks : TRUE
         IN results[k].count + SumCounts(ks \ {k})

(***************************************************************************)
(* C1 (P1 completeness): with crash-free workers, when the run is over     *)
(* the result container holds exactly one record for each chunk_id in      *)
(* 0 .. ceil(N/S)-1, none missing and none duplicated.                     *)
(***************************************************************************)
C1_ExactlyOneResultPerChunk ==
    (AllStopped /\ \E w \in Workers : pc[w] = "idle_exit" /\ seeded # <<>>)
        => \A cid \in BatchChunkIds : Cardinality(RecordsOf(cid)) = 1

(***************************************************************************)
(* C2 (P2 partition): once seed(N, S) has returned, the inserted chunks    *)
(* have pairwise disjoint ranges [start, end) whose union is [0, N); there *)
(* are ceil(N/S) of them; every chunk but the last has params_count = S    *)
(* and the last has N - (total_chunks-1)*S; chunk_ids strictly increase in *)
(* insertion order.                                                        *)
(***************************************************************************)
SeedReturned == pc[0] = "loop"

C3_NoTaskLost ==
    \A cid \in Range(seeded) :
        \/ Undelivered(cid)
        \/ Holders(cid) # {}
        \/ InRetry(cid)
        \/ DeadLetteredChunk(cid)
        \/ HasFullResult(cid)

(***************************************************************************)
(* C4 (P3 crash recovery, streams): no surviving worker leaves through the *)
(* idle path while a chunk abandoned by a terminated worker is pending:    *)
(* the step that takes a worker to its idle exit is never taken in a state *)
(* where a crashed worker owns a pending entry.                            *)
(***************************************************************************)
AbandonedPending == \E e \in pel : pc[e.consumer] = "crashed"

C4_NoExitWhileAbandonedPending ==
    [][\A w \in Workers :
          (backend = "redis" /\ pc[w] # "idle_exit" /\ pc'[w] = "idle_exit")
              => ~AbandonedPending]_vars

(***************************************************************************)
(* C5 (claim exclusivity): for every chunk_id at most one consumer holds   *)
(* an in-flight claim.                                                     *)
(***************************************************************************)
C5_ClaimExclusive ==
    \A cid \in BatchChunkIds : Cardinality(Holders(cid)) <= 1

(***************************************************************************)
(* C6 (all-or-nothing results): every record in the result container has   *)
(* count equal to end_param - start_param of its chunk.                    *)
(***************************************************************************)
C6_AllOrNothing ==
    \A k \in 1..Len(results) :
        results[k].count = RangeSize(results[k].chunk_id)

(***************************************************************************)
(* C7 (interrupted chunks stay claimable): a worker whose processing of a  *)
(* chunk was interrupted by the shutdown flag takes no step that removes   *)
(* its claim: as long as it runs, the chunk remains pending.               *)
(***************************************************************************)
C7_InterruptedNotAcked ==
    [][\A w \in Workers :
          (Interrupted(w) /\ ClaimHeld(w) /\ Running(w)' /\ pc'[w] # pc[w])
              => ClaimHeld(w)']_vars

(***************************************************************************)
(* C8 (P4 dedup aggregation): at the end of a run in which every chunk has *)
(* a result, keeping the first record per chunk_id gives one record per    *)
(* seeded chunk_id whose counts sum to total_parameters.                   *)
(***************************************************************************)
C8_DedupAggregation ==
    (AllStopped /\ \A cid \in BatchChunkIds : RecordsOf(cid) # {})
        => /\ {results[k].chunk_id : k \in FirstRecords} = BatchChunkIds
           /\ SumCounts(FirstRecords) = total_parameters

(***************************************************************************)
(* C9 (P5 disjointness, broker): no chunk_id has both a record in the      *)
(* result container and a dead_lettered record in the dead-letter          *)
(* container.                                                              *)
(***************************************************************************)
C9_ResultXorDeadLetter ==
    backend = "rabbitmq" =>
        \A cid \in BatchChunkIds :
            ~(RecordsOf(cid) # {} /\ DeadLetteredChunk(cid))

(***************************************************************************)
(* C10 (P7 seed idempotence): once a first seed has inserted the whole     *)
(* batch, a later seed call with force = false inserts nothing, whether or *)
(* not chunks of the first seed are claimed: no worker is about to insert  *)
(* chunk 0 after a complete first seed.                                    *)
(***************************************************************************)
FirstSeedComplete ==
    LET n == CeilDiv(total_parameters, chunk_size)
    IN /\ Len(seeded) >= n
       /\ \A i \in 1..n : seeded[i] = ChunkIdStr(i - 1)

C10_SecondSeedInsertsNothing ==
    \A w \in Workers :
        ~(FirstSeedComplete /\ pc[w] = "seed_add" /\ seed_i[w] = 0)

(***************************************************************************)
(* C11 (S6 seed race): when workers 0, 1 and 2 start concurrently against  *)
(* a fresh backend, only worker 0 ever calls seed, the others never do     *)
(* (even when they saw an empty task container), and the chunks inserted   *)
(* are those of one seed call: each chunk_id of the batch at most once, in *)
(* order.                                                                  *)
(***************************************************************************)
C11_OnlyWorkerZeroSeedsOnce ==
    /\ \A w \in AllWorkers \ {0} : pc[w] \notin {"init", "seed_add"}
    /\ Len(seeded) <= CeilDiv(total_parameters, chunk_size)
    /\ \A i \in 1..Len(seeded) : seeded[i] = ChunkIdStr(i - 1)
    /\ (pc[0] \notin {"boot", "init", "seed_add"} /\ ~Stopped(0))
           => Len(seeded) = CeilDiv(total_parameters, chunk_size)

\* the seed is complete and untouched, and workers 1 and 2 have already
\* left idle: they found the container empty and did not seed
C11_Witness ==
    /\ Len(seeded) = CeilDiv(total_parameters, chunk_size)
    /\ Len(Inserted) = Len(seeded)
    /\ \A cid \in BatchChunkIds : Undelivered(cid) /\ Holders(cid) = {}
    /\ results = <<>>
    /\ pc[1] = "idle_exit" /\ pc[2] = "idle_exit"

(***************************************************************************)
(* C12 (bootstrap without deadlock): a worker with worker_id # 0 that      *)
(* starts before the seeder has seeded never terminates with a failure.    *)
(***************************************************************************)
C12_NonSeederNeverFails ==
    \A w \in AllWorkers \ {0} : pc[w] # "failed"

(***************************************************************************)
(* C13 (idle exit only when nothing is recoverable): the step by which a   *)
(* worker leaves the main loop through the idle path is only taken when    *)
(* the pending list is empty (streams), or the retry queue is empty and no *)
(* delivery is unacked (broker).                                           *)
(***************************************************************************)
NothingRecoverable ==
    IF backend = "redis"
    THEN pel = {}
    ELSE retry_queue = <<>> /\ \A w \in Workers : unacked[w] = NoTask

C13_IdleExitOnlyWhenNothingRecoverable ==
    [][\A w \in Workers :
          (pc[w] # "idle_exit" /\ pc'[w] = "idle_exit") => NothingRecoverable
      ]_vars

(***************************************************************************)
(* C14 (P6 idle exit, liveness): once all chunks are acked and no retry    *)
(* message remains, every running worker eventually leaves the main loop   *)
(* through the idle path, with status completed.                           *)
(***************************************************************************)
SeedingOver == seeded # <<>> /\ \A w \in Workers : pc[w] \notin {"init", "seed_add"}

Drained ==
    /\ SeedingOver
    /\ IF backend = "redis"
       THEN last_delivered = Len(stream) /\ pel = {}
       ELSE /\ task_queue = <<>>
            /\ retry_queue = <<>>
            /\ \A w \in Workers : unacked[w] = NoTask

C14_IdleExitEventually ==
    \A w \in Workers :
        [](Drained /\ Running(w) => <>(pc[w] = "idle_exit" /\ ~kill_now[w]))

\* everything is acked and a worker is still in its main loop
C14_Witness ==
    /\ Drained
    /\ Len(results) >= CeilDiv(total_parameters, chunk_size)
    /\ \E w \in Workers : pc[w] = "loop"

(***************************************************************************)
(* C15 (broker nack routing): the publish of nack_task for a chunk whose   *)
(* retry_count is r adds exactly one message, a copy of the chunk with     *)
(* retry_count = r + 1 and last_error set: to the retry queue and nothing  *)
(* to the dead-letter queue when r < max_retries, otherwise to the         *)
(* dead-letter queue with status = dead_lettered and nothing to the retry  *)
(* queue.                                                                  *)
(***************************************************************************)
NackCopy(m, t) ==
    /\ m.chunk_id = t.chunk_id
    /\ m.start_param = t.start_param
    /\ m.end_param = t.end_param
    /\ m.retry_count = t.retry_count + 1
    /\ "last_error" \in DOMAIN m

C15_NackRouting ==
    [][\A w \in Workers :
          (pc[w] = "nack_publish" /\ pc'[w] = "nack_ack") =>
              /\ task_queue' = task_queue
              /\ IF task[w].retry_count < max_retries
                 THEN /\ dlq' = dlq
                      /\ Len(retry_queue') = Len(retry_queue) + 1
                      /\ SubSeq(retry_queue', 1, Len(retry_queue)) = retry_queue
                      /\ NackCopy(retry_queue'[Len(retry_queue')], task[w])
                      /\ retry_queue'[Len(retry_queue')].status # "dead_lettered"
                 ELSE /\ retry_queue' = retry_queue
                      /\ Len(dlq') = Len(dlq) + 1
                      /\ SubSeq(dlq', 1, Len(dlq)) = dlq
                      /\ NackCopy(dlq'[Len(dlq')], task[w])
                      /\ dlq'[Len(dlq')].status = "dead_lettered"
      ]_vars

\* a chunk went through the retry queue once and was then dead-lettered
C15_Witness ==
    \E k \in 1..Len(dlq) :
        dlq[k].retry_count = 2 /\ dlq[k].status = "dead_lettered"

(***************************************************************************)
(* C16 (broker nack does not duplicate): on the broker, as long as the     *)
(* batch was seeded once, a chunk never has two live copies among the task *)
(* queue, the retry queue, the dead-letter queue and the deliveries in     *)
(* flight (the delivery a nack_task in progress is about to ack is not     *)
(* counted).                                                               *)
(***************************************************************************)
CountIn(q, cid) == Cardinality({k \in 1..Len(q) : q[k].chunk_id = cid})

LiveCopies(cid) ==
    CountIn(task_queue, cid) + CountIn(retry_queue, cid) + CountIn(dlq, cid)
    + Cardinality({w \in Workers :
                      unacked[w].chunk_id = cid /\ pc[w] # "nack_ack"})

C16_NackDoesNotDuplicate ==
    (backend = "rabbitmq"
       /\ Len(seeded) <= CeilDiv(total_parameters, chunk_size))
        => \A cid \in BatchChunkIds : LiveCopies(cid) <= 1

(***************************************************************************)
(* C17 (bounded attempts, broker): with crash-free workers every delivery  *)
(* of a chunk carries retry_count <= max_retries, so a chunk is attempted  *)
(* at most max_retries + 1 times; the failure of the last attempt puts the *)
(* chunk in the dead-letter queue with retry_count = max_retries + 1; and  *)
(* a dead-lettered chunk is terminal: its record stays in the dead-letter  *)
(* queue and the chunk is in no other queue and delivered to no worker.    *)
(***************************************************************************)
AttemptsBounded ==
    /\ \A w \in Workers :
          unacked[w] # NoTask => unacked[w].retry_count <= max_retries
    /\ \A k \in 1..Len(task_queue) : task_queue[k].retry_count <= max_retries
    /\ \A k \in 1..Len(retry_queue) : retry_queue[k].retry_count <= max_retries
    /\ \A k \in 1..Len(dlq) : dlq[k].retry_count = max_retries + 1

DeadLetterTerminal ==
    \A cid \in BatchChunkIds :
        DeadLetteredChunk(cid) =>
            /\ ~Undelivered(cid)
            /\ ~InRetry(cid)
            /\ \A w \in Workers :
                  unacked[w].chunk_id = cid => pc[w] = "nack_ack"
            /\ RecordsOf(cid) = {}

C17_BoundedAttempts ==
    /\ [](backend = "rabbitmq" => AttemptsBounded /\ DeadLetterTerminal)
    /\ [][backend = "rabbitmq" =>
            /\ Len(dlq') >= Len(dlq) /\ SubSeq(dlq', 1, Len(dlq)) = dlq
            /\ \A w \in Workers :
                  (pc[w] = "nack_publish" /\ pc'[w] = "nack_ack"
                     /\ task[w].retry_count = max_retries)
                      => DeadLetteredChunk(task[w].chunk_id)']_vars

\* the run is over and a chunk was dead-lettered after max_retries retries
C17_Witness ==
    /\ backend = "rabbitmq"
    /\ AllStopped
    /\ max_retries = MaxRetries
    /\ dlq # <<>>

(***************************************************************************)
(* C18 (S5 forced dead-lettering): on the broker, when every processing    *)
(* attempt fails, the result container stays empty and every dead-letter   *)
(* record has status = dead_lettered and retry_count = max_retries + 1;    *)
(* with max_retries = 0 the run ends with exactly one dead-letter record   *)
(* per seeded chunk, each with retry_count = 1.                            *)
(***************************************************************************)
C18_ForcedDeadLettering ==
    /\ results = <<>>
    /\ \A k \in 1..Len(dlq) :
          dlq[k].status = "dead_lettered" /\ dlq[k].retry_count = max_retries + 1
    /\ (AllStopped /\ max_retries = 0) =>
          /\ Len(dlq) = CeilDiv(total_parameters, chunk_size)
          /\ \A cid \in BatchChunkIds : CountIn(dlq, cid) = 1
          /\ \A k \in 1..Len(dlq) : dlq[k].retry_count = 1

\* the run with max_retries = 0 is over and the batch is dead-lettered
C18_Witness ==
    /\ AllStopped
    /\ max_retries = 0
    /\ Len(seeded) = CeilDiv(total_parameters, chunk_size)
    /\ Len(dlq) = Len(seeded)

(***************************************************************************)
(* C19 (ack is final): once the ack of a delivery of a chunk has           *)
(* succeeded, no later step delivers that chunk to a worker through claim  *)
(* (get_next_task) or returns it from reclaim_stale (claim_stale_tasks),   *)
(* as long as no chunk_id was seeded twice.                                *)
(***************************************************************************)
\* the step hands a chunk to worker w: get_next_task returns it ...
ClaimedBy(w) == pc[w] \in {"loop", "claim"} /\ pc'[w] = "proc"
\* ... or claim_stale_tasks adds it to its claimed tasks
ReclaimedBy(w) == Len(claimed'[w]) > Len(claimed[w])

SeededOnce == \A i, j \in 1..Len(seeded) : i # j => seeded[i] # seeded[j]

C19_AckIsFinal ==
    [][SeededOnce =>
          \A w \in Workers :
              /\ ClaimedBy(w) => task'[w].chunk_id \notin acked
              /\ ReclaimedBy(w) =>
                    claimed'[w][Len(claimed'[w])].chunk_id \notin acked]_vars

(***************************************************************************)
(* C20 (publish-then-ack ordering): a worker acks a chunk only after it    *)
(* has published a result for it, in the normal path and in the stale      *)
(* reclaim path alike; hence every chunk acked through the success path    *)
(* has a record in the result container, whatever crashes happen.          *)
(***************************************************************************)
PublishedBy(w, cid) ==
    \E k \in 1..Len(results) :
        results[k].chunk_id = cid /\ results[k].worker_id = w

C20_PublishThenAck ==
    /\ \A cid \in acked : RecordsOf(cid) # {}
    /\ \A w \in Workers :
          pc[w] = "ack" => PublishedBy(w, task[w].chunk_id)
    /\ \A w \in Workers :
          pc[w] \in {"proc", "compute", "publish"} =>
              (ClaimHeld(w) \/ backend = "redis")

\* a chunk reclaimed from a crashed worker was published and acked by the
\* worker that reclaimed it
C20_Witness ==
    \E w \in Workers :
        /\ pc[w] = "rec" /\ claimed[w] = <<>>
        /\ \E v \in Workers : pc[v] = "crashed"
        /\ Len(results) = 1
        /\ \E cid \in acked : PublishedBy(w, cid)

(***************************************************************************)
(* C21 (at most one result per chunk under crashes): whatever crashes and  *)
(* reclaims happen, the result container never holds two records with the  *)
(* same chunk_id.                                                          *)
(***************************************************************************)
C21_AtMostOneResultPerChunk ==
    \A i, j \in 1..Len(results) :
        i # j => results[i].chunk_id # results[j].chunk_id

(***************************************************************************)
(* C22 (seeding happens once per batch): once the chunk set has been       *)
(* inserted, no chunk_id is enqueued by seeding again, also when worker 0  *)
(* restarts after chunks were claimed, retried or completed.               *)
(***************************************************************************)
C22_SeededExactlyOnce ==
    FirstSeedComplete => Len(seeded) = CeilDiv(total_parameters, chunk_size)

(***************************************************************************)
(* initialize_tasks(total_params, chunk_size, force = True), called by an  *)
(* operator between runs, when no worker process is alive.                 *)
(***************************************************************************)
ForceInitializeTasks ==
    LET n == NumChunks(total_parameters, chunk_size)
    IN
    /\ \A w \in Workers : Stopped(w)
    /\ events < MaxEvents
    /\ events' = events + 1
    /\ IF backend = "redis"
       THEN \* ensure_stream_exists; "if force and current_length > 0":
            \* DEL ttg:tasks, ensure_stream_exists; then the XADDs
            /\ group_exists' = TRUE
            /\ stream' = (IF Len(stream) > 0 THEN <<>> ELSE stream) \o
                    [k \in 1..n |-> TaskData(k - 1, total_parameters, chunk_size)]
            /\ pel' = IF Len(stream) > 0 THEN {} ELSE pel
            /\ last_delivered' = IF Len(stream) > 0 THEN 0 ELSE last_delivered
            /\ UNCHANGED <<rabbitVars, results>>
       ELSE \* "if force": queue_purge of the four queues; then the publishes
            /\ task_queue' =
                    [k \in 1..n |-> TaskDataRabbit(k - 1, total_parameters, chunk_size)]
            /\ results' = <<>>
            /\ retry_queue' = <<>>
            /\ dlq' = <<>>
            /\ UNCHANGED <<unacked, redisVars>>
    /\ seeded' = seeded \o [k \in 1..n |-> ChunkIdStr(k - 1)]
    /\ UNCHANGED <<cfgVars, staticVars, countVars, outVars, connVars, acked, pc, localVars, kill_now>>

NextForce ==
    \/ NextFaulty
    \/ ForceInitializeTasks

SpecForce == InitFaulty /\ [][NextForce]_vars

(***************************************************************************)
(* C23 (forced seed purges everything): when a seed with force = true      *)
(* returns, the result container is empty, the retry and dead-letter       *)
(* containers are empty, and the task container holds exactly the          *)
(* ceil(N/S) new chunks.                                                   *)
(***************************************************************************)
C23_ForcedSeedPurgesEverything ==
    [][ForceInitializeTasks =>
          /\ results' = <<>>
          /\ retry_queue' = <<>>
          /\ dlq' = <<>>
          /\ Len(Inserted') = CeilDiv(total_parameters, chunk_size)
          /\ \A k \in 1..Len(Inserted') :
                Inserted'[k].chunk_id = ChunkIdStr(k - 1)]_vars

(***************************************************************************)
(* claim_stale_tasks as an operation of the queue: the last worker calls   *)
(* it with a count of 1 or more, while the other workers claim, complete,  *)
(* get killed and their claims age.                                        *)
(***************************************************************************)
MaxClaimCount == 2
WindowChunkSize == 1
WindowClaimCount == 1

InitReclaim ==
    /\ backend = "redis"
    /\ total_parameters = TotalParameters
    /\ chunk_size = ChunkSize
    /\ max_retries = MaxRetries
    /\ claim_count \in 1..MaxClaimCount
    /\ worker_id = [w \in AllWorkers |-> w]
    /\ total_workers = MaxWorkerId + 1
    /\ batch_size = MaxBatchSize
    /\ InitState

NextReclaim ==
    \/ \E w \in AllWorkers : Bootstrap(w)
    \/ StaleRecovery(MaxWorkerId)
    \/ \E w \in AllWorkers : Consume(w)
    \/ \E w \in Workers : Crash(w)
    \/ Tick

SpecReclaim == InitReclaim /\ [][NextReclaim]_vars

\* claim_stale_tasks of worker w returns its list claimed_tasks
ReclaimReturns(w) == pc[w] = "xclaim" /\ pc'[w] = "rec"

\* the owners of the pending entry of a returned task
OwnersOf(t) == {e.consumer : e \in {x \in pel : x.message_id = t.message_id}}

(***************************************************************************)
(* C24 (streams reclaim contract): claim_stale_tasks(consumer_name,        *)
(* min_idle, count) returns at most count chunks; each of them was pending *)
(* and idle for min_idle or more when it was transferred, and carries      *)
(* reclaimed = true and the consumer it was taken from; a pending entry    *)
(* idle for less than min_idle keeps its owner; and when the call returns  *)
(* every returned chunk is owned by consumer_name and by nobody else.      *)
(***************************************************************************)
C24_ReclaimContract ==
    [][\A w \in AllWorkers :
         /\ Len(claimed'[w]) <= claim_count
         /\ n_claimed'[w] <= claim_count
         /\ ReclaimedBy(w) =>
               LET t == claimed'[w][Len(claimed'[w])]
               IN /\ \E e \in pel : /\ e.message_id = t.message_id
                                    /\ e.idle_time_ms >= stale_threshold_ms
                                    /\ t.previous_consumer = e.consumer
                  /\ t.reclaimed = TRUE
                  /\ \A e \in pel :
                        e.idle_time_ms < stale_threshold_ms => e \in pel'
         /\ ReclaimReturns(w) =>
               \A k \in 1..Len(claimed[w]) :
                   OwnersOf(claimed[w][k]) = {w}]_vars

\* a pending entry of chunk cid that no worker is working on: its owner
\* dropped the chunk after a failed attempt
FaultedPending(cid) ==
    /\ backend = "redis"
    /\ \E e \in pel :
          /\ stream[e.message_id].chunk_id = cid
          /\ \A w \in Workers :
                /\ task[w] = NoTask \/ task[w].message_id # e.message_id
                /\ \A k \in 1..Len(claimed[w]) :
                      claimed[w][k].message_id # e.message_id

\* the failed attempt of worker w publishes nothing and acknowledges nothing
FaultKeepsClaim(w) ==
    (ProcessChunkFault(w) /\ backend = "redis") =>
        results' = results /\ pel' = pel

(***************************************************************************)
(* C25 (streams failure handling): on Redis a failed attempt publishes no  *)
(* result and sends no ack, so the pending entry of the chunk persists;    *)
(* and a chunk left pending by a failed attempt is eventually taken over   *)
(* by a running worker and completed.                                      *)
(***************************************************************************)
C25_FaultedChunkRecovered ==
    /\ [][\A w \in Workers : FaultKeepsClaim(w)]_vars
    /\ \A i \in 0..(NumChunks(TotalParameters, ChunkSize) - 1) :
          [](FaultedPending(ChunkIdStr(i)) => <>HasFullResult(ChunkIdStr(i)))

(***************************************************************************)
(* C26 (claims are private): the pending entry of a claim is removed only  *)
(* by the ack of the worker that owns it at that moment; a slow worker     *)
(* whose chunk was reclaimed by a peer does not remove the peer's claim    *)
(* by acking.                                                              *)
(***************************************************************************)
C26_AckOnlyRemovesOwnClaim ==
    [][\A e \in pel :
          (\A x \in pel' : x.message_id # e.message_id) =>
              AckTask(e.consumer)]_vars

(***************************************************************************)
(* The end of run and main: the status of the summary and the exit code.   *)
(***************************************************************************)
\* run has returned its summary
Returned(w) == pc[w] \in {"idle_exit", "kill_exit", "failed"}

\* summary['status']: 'failed' from the handler of run, else what
\* _generate_summary computes from kill_now
Status(w) ==
    IF pc[w] = "failed" THEN "failed"
    ELSE IF ~kill_now[w] THEN "completed"
    ELSE "interrupted"

\* "if summary['status'] == 'completed': sys.exit(0) else: sys.exit(1)"
ExitCodeAlwaysZero(status) == 0
ExitCode(status) == IF status = "completed" THEN 0 ELSE 1

MainExit(w) ==
    /\ Returned(w)
    /\ exit_code[w] = -1
    /\ exit_code' = [exit_code EXCEPT ![w] = ExitCode(Status(w))]
    /\ UNCHANGED <<cfgVars, staticVars, countVars, connVars, redisVars, rabbitVars, results, seeded,
                   acked, pc, localVars, kill_now, envVars>>

\* "except Exception as e: sys.exit(1)": the worker could not be built from
\* its environment (QueueWorker() raises)
MainExcept(w) ==
    /\ pc[w] = "boot"
    /\ exit_code[w] = -1
    /\ pc' = [pc EXCEPT ![w] = "raised"]
    /\ exit_code' = [exit_code EXCEPT ![w] = 1]
    /\ UNCHANGED <<cfgVars, staticVars, countVars, connVars, redisVars, rabbitVars, results, seeded,
                   acked, localVars, kill_now, envVars>>

\* workers that may be signalled at any point and whose attempts may fail,
\* each worker being scheduled again and again
SignalledStep(w) ==
    \/ WorkerStep(w)
    \/ LoopExit(w)

NextSignal ==
    \/ \E w \in Workers : SignalledStep(w)
    \/ \E w \in Workers : ExitGracefully(w)
    \/ Tick
    \/ RetryExpire

SpecSignal ==
    /\ Init
    /\ [][NextSignal]_vars
    /\ \A w \in Workers : WF_vars(SignalledStep(w))

(***************************************************************************)
(* C27 (graceful shutdown): once a signal has set kill_now, the worker     *)
(* eventually leaves the main loop and returns a summary whose status is   *)
(* "interrupted", whatever it was doing when the signal arrived.           *)
(***************************************************************************)
C27_SignalledWorkerInterrupted ==
    \A w \in Workers :
        []((Running(w) /\ kill_now[w]) =>
              <>(Returned(w) /\ Status(w) = "interrupted"))

\* workers that may be signalled at any point, up to the exit of main
NextMain ==
    \/ \E w \in Workers : Bootstrap(w)
    \/ \E w \in Workers : StaleRecovery(w)
    \/ \E w \in Workers : Consume(w)
    \/ \E w \in Workers : LoopExit(w)
    \/ \E w \in Workers : ExitGracefully(w)
    \/ \E w \in Workers : MainExit(w)
    \/ \E w \in Workers : MainExcept(w)
    \/ Tick

SpecMain == Init /\ [][NextMain]_vars

(***************************************************************************)
(* C28 (exit codes): the process exits with code 0 exactly when the final  *)
(* status is "completed", and with code 1 when the status is "interrupted" *)
(* or "failed" or when an exception reached main.                          *)
(***************************************************************************)
C28_ExitCodes ==
    \A w \in Workers :
        exit_code[w] # -1 =>
            /\ exit_code[w] \in {0, 1}
            /\ exit_code[w] = 0 <=> (Returned(w) /\ Status(w) = "completed")
            /\ (Returned(w) /\ Status(w) \in {"interrupted", "failed"}) =>
                  exit_code[w] = 1
            /\ pc[w] = "raised" => exit_code[w] = 1

\* one worker has exited after an idle exit, the other after a signal
C28_Witness ==
    \E w, v \in Workers :
        /\ exit_code[w] = 0 /\ pc[w] = "idle_exit" /\ ~kill_now[w]
        /\ exit_code[v] = 1 /\ Returned(v) /\ Status(v) = "interrupted"

\* worker w is inside the handler of a failed attempt of the normal path
InFaultHandler(w) ==
    \/ pc[w] = "proc" /\ ctx[w] = "none"
    \/ pc[w] \in {"nack_publish", "nack_ack"}

(***************************************************************************)
(* C29 (chunk faults are not fatal): a failed attempt in the normal claim  *)
(* path never stops the worker and never makes its status "failed": from   *)
(* the failure the worker goes through nack_task, where the backend has    *)
(* one, back to the top of the loop to claim the next chunk, also when the *)
(* chunk is dead-lettered.                                                 *)
(***************************************************************************)
C29_ChunkFaultNotFatal ==
    [][\A w \in Workers :
         /\ (ProcessChunkFault(w) /\ ctx[w] = "none") =>
               pc'[w] = (IF backend = "rabbitmq" THEN "nack_publish" ELSE "loop")
         /\ NackTaskPublish(w) => pc'[w] = "nack_ack"
         /\ NackTaskAck(w) => pc'[w] = "loop"
         /\ (InFaultHandler(w) /\ Running(w)') => Status(w)' # "failed"
         /\ InFaultHandler(w) => Running(w)']_vars

\* worker w, alone, saw a chunk fail and be dead-lettered, and is processing
\* the next chunk
C29_Witness ==
    \E w \in Workers :
        /\ \A v \in Workers \ {w} : pc[v] = "boot"
        /\ Len(dlq) = 1
        /\ pc[w] = "proc"
        /\ task[w].chunk_id # dlq[1].chunk_id

(***************************************************************************)
(* Loss of the backend connection in the main loop, noticed by the next    *)
(* get_next_task.                                                          *)
(***************************************************************************)
\* the connection of worker w drops while it is between two operations
ConnectionLost(w) ==
    /\ pc[w] = "loop"
    /\ ~kill_now[w]
    /\ link[w] = "up"
    /\ events < MaxEvents
    /\ events' = events + 1
    /\ link' = [link EXCEPT ![w] = "lost"]
    /\ UNCHANGED <<cfgVars, staticVars, countVars, outVars, attempt, redisVars, rabbitVars, results,
                   seeded, acked, pc, localVars, kill_now>>

\* TaskQueue.ensure_connected: ping raises ConnectionError, connect(retry=
\* True) makes up to MAX_RETRIES attempts; one attempt that succeeds
ConnectSucceeds(w) ==
    /\ AtClaim(w)
    /\ backend = "redis"
    /\ link[w] = "lost"
    /\ attempt[w] < MAX_RETRIES
    /\ link' = [link EXCEPT ![w] = "up"]
    /\ attempt' = [attempt EXCEPT ![w] = 0]
    /\ UNCHANGED <<cfgVars, staticVars, countVars, outVars, redisVars, rabbitVars, results, seeded,
                   acked, pc, localVars, kill_now, envVars>>

\* one attempt that fails: "if attempt < attempts: sleep else: raise"; the
\* ConnectionError leaves get_next_task and run returns status failed
ConnectFails(w) ==
    /\ AtClaim(w)
    /\ backend = "redis"
    /\ link[w] = "lost"
    /\ attempt[w] < MAX_RETRIES
    /\ IF attempt[w] + 1 < MAX_RETRIES
       THEN /\ attempt' = [attempt EXCEPT ![w] = @ + 1]
            /\ UNCHANGED <<pc, localVars, rabbitVars>>
       ELSE /\ attempt' = [attempt EXCEPT ![w] = @ + 1]
            /\ Exit(w, "failed")
            /\ UNCHANGED <<retry_queue, dlq>>
    /\ UNCHANGED <<cfgVars, staticVars, countVars, outVars, link, redisVars, results, seeded, acked,
                   kill_now, envVars>>

\* RabbitMQTaskQueue._ensure_connected only reads the flags, which are
\* still set: basic_get raises on the dead connection, the exception
\* leaves get_next_task and run returns status failed
BasicGetRaises(w) ==
    /\ AtClaim(w)
    /\ backend = "rabbitmq"
    /\ link[w] = "lost"
    /\ Exit(w, "failed")
    /\ UNCHANGED <<cfgVars, staticVars, countVars, outVars, connVars, redisVars, retry_queue, dlq,
                   results, seeded, acked, kill_now, envVars>>

Connected(w) == link[w] = "up"

NextReconnect ==
    \/ \E w \in Workers : Connected(w) /\ Bootstrap(w)
    \/ \E w \in Workers : Connected(w) /\ StaleRecovery(w)
    \/ \E w \in Workers : Connected(w) /\ Consume(w)
    \/ \E w \in Workers : ConnectionLost(w)
    \/ \E w \in Workers : ConnectSucceeds(w)
    \/ \E w \in Workers : ConnectFails(w)
    \/ \E w \in Workers : BasicGetRaises(w)
    \/ Tick

SpecReconnect == Init /\ [][NextReconnect]_vars

(***************************************************************************)
(* C30 (transparent reconnect): on either backend a worker that lost its   *)
(* connection in the main loop fails only after MAX_RETRIES reconnect      *)
(* attempts have failed, and goes on when one of them succeeds.            *)
(***************************************************************************)
C30_FatalOnlyOnExhaustion ==
    [][\A w \in Workers :
         (link[w] = "lost" /\ pc[w] # "failed" /\ pc'[w] = "failed") =>
             attempt'[w] = MAX_RETRIES]_vars

\* the messages of the task container that no consumer has been given yet
VisibleUnclaimed ==
    IF backend = "redis"
    THEN Len(stream) - last_delivered
    ELSE Len(task_queue)

(***************************************************************************)
(* C31 (task_count semantics): on both backends get_stream_length returns  *)
(* the number of chunks that are visible and unclaimed; chunks in flight   *)
(* with a consumer and chunks already acked are not counted.               *)
(***************************************************************************)
C31_TaskCountIsVisibleUnclaimed == get_stream_length = VisibleUnclaimed

\* the result records published under the consumer name of worker w
RecordsBy(w) == {k \in 1..Len(results) : results[k].worker_id = w}

\* chunks_processed summed over the workers
RECURSIVE SumProcessed(_)
SumProcessed(ws) ==
    IF ws = {} THEN 0
    ELSE LET w == CHOOSE x \in ws : TRUE
         IN chunks_processed[w] + SumProcessed(ws \ {w})

(***************************************************************************)
(* C32 (counter consistency): in a run without crashes, faults or signals  *)
(* the chunks_processed of a worker equals the number of result records    *)
(* published under its name (once the chunk it counted is published), and  *)
(* when the run is over the sum of chunks_processed equals the number of   *)
(* result records, which equals total_chunks.                              *)
(***************************************************************************)
C32_CounterConsistency ==
    /\ \A w \in Workers :
          pc[w] # "publish" => chunks_processed[w] = Cardinality(RecordsBy(w))
    /\ AllStopped =>
          /\ SumProcessed(Workers) = Len(results)
          /\ Len(results) = CeilDiv(total_parameters, chunk_size)

(***************************************************************************)
(* Two worker processes started with WORKER_ID = 0 against a fresh         *)
(* backend: both run _maybe_initialize_tasks.                              *)
(***************************************************************************)
InitTwoSeeders ==
    /\ backend \in Backends
    /\ total_parameters \in 1..MaxSeedParams
    /\ chunk_size \in 1..MaxSeedChunk
    /\ max_retries = MaxRetries
    /\ claim_count = STALE_CLAIM_COUNT
    /\ worker_id = [w \in AllWorkers |-> 0]
    /\ total_workers = MaxWorkerId + 1
    /\ batch_size = MaxBatchSize
    /\ InitState

NextTwoSeeders == \E w \in Workers : Bootstrap(w)

SpecTwoSeeders == InitTwoSeeders /\ [][NextTwoSeeders]_vars

(***************************************************************************)
(* C33 (concurrent seed safety): when two seeds without force run          *)
(* concurrently against an empty task container, at most one of them       *)
(* inserts chunks: no chunk_id is inserted twice.                          *)
(***************************************************************************)
C33_ConcurrentSeedInsertsOnce ==
    /\ Len(seeded) <= CeilDiv(total_parameters, chunk_size)
    /\ \A i \in 1..Len(seeded) : seeded[i] = ChunkIdStr(i - 1)

(***************************************************************************)
(* C34 (idle exit counter): the step by which a worker leaves the main     *)
(* loop through the idle path is taken only when max_empty_reads           *)
(* consecutive claims returned nothing and, on streams, at the end of a    *)
(* forced stale check whose reclaim returned no chunk.                     *)
(***************************************************************************)
IdleExitStep(w) == pc[w] # "idle_exit" /\ pc'[w] = "idle_exit"

C34_IdleExitAfterEmptyForcedReclaim ==
    [][\A w \in Workers :
          IdleExitStep(w) =>
              IF backend = "redis"
              THEN /\ consecutive_empty[w] >= max_empty_reads
                   /\ ctx[w] = "forced"
                   /\ n_claimed[w] = 0 /\ claimed[w] = <<>>
              ELSE consecutive_empty[w] + 1 >= max_empty_reads
      ]_vars

(***************************************************************************)
(* C35 (broker retry counter): a chunk is seeded with retry_count = 0;     *)
(* the only step that produces a new retry_count for a chunk is the        *)
(* publish of nack_task, which produces the nacked delivery's count plus   *)
(* one; a delivery requeued by a crash or disconnect keeps its count; and  *)
(* in every state the messages in the task and retry queues carry          *)
(* retry_count <= max_retries, the dead-letter records max_retries + 1.    *)
(***************************************************************************)
CountsIn(q) == {<<q[k].chunk_id, q[k].retry_count>> : k \in 1..Len(q)}

\* the (chunk_id, retry_count) pairs present on the broker
Counts ==
    CountsIn(task_queue) \cup CountsIn(retry_queue) \cup CountsIn(dlq)
    \cup {<<unacked[w].chunk_id, unacked[w].retry_count>> :
             w \in {x \in Workers : unacked[x] # NoTask}}

NackStep(w) == pc[w] = "nack_publish" /\ pc'[w] = "nack_ack"

C35_RetryCounter ==
    /\ [](backend = "rabbitmq" =>
            /\ \A p \in CountsIn(task_queue) \cup CountsIn(retry_queue) :
                  p[2] \in 0..max_retries
            /\ \A p \in CountsIn(dlq) : p[2] = max_retries + 1)
    /\ [][backend = "rabbitmq" =>
            /\ \A p \in Counts' \ Counts :
                  \/ p[2] = 0 /\ \E w \in Workers : pc[w] = "seed_add"
                  \/ \E w \in Workers :
                        /\ NackStep(w)
                        /\ p = <<task[w].chunk_id, task[w].retry_count + 1>>
            /\ \A w \in Workers :
                  NackStep(w) =>
                      <<task[w].chunk_id, task[w].retry_count + 1>> \in Counts'
            /\ \A w \in Workers :
                  (pc[w] # "crashed" /\ pc'[w] = "crashed"
                     /\ unacked[w] # NoTask) =>
                      /\ Counts' = Counts
                      /\ <<unacked[w].chunk_id, unacked[w].retry_count>>
                            \in CountsIn(task_queue')]_vars

\* the batch was seeded once and the last chunk, nacked once, is at the head
\* of the task queue ahead of the first chunk: it was put back there when
\* the worker holding it crashed
C35_Witness ==
    /\ backend = "rabbitmq"
    /\ Len(seeded) <= CeilDiv(total_parameters, chunk_size)
    /\ \E w \in Workers : pc[w] = "crashed"
    /\ Len(task_queue) >= 2
    /\ task_queue[1].chunk_id = ChunkIdStr(1) /\ task_queue[1].retry_count = 1
    /\ task_queue[2].chunk_id = ChunkIdStr(0) /\ task_queue[2].retry_count = 0

(***************************************************************************)
(* C36 (fault inside a reclaim batch): when _check_and_claim_stale_tasks   *)
(* returns while chunks of the reclaimed batch are still unprocessed (the  *)
(* processing of one raised, or the shutdown flag was set), the step       *)
(* publishes and acks nothing, every unprocessed chunk is still in the     *)
(* pending list under the reclaiming worker's name, and the worker is      *)
(* still running.                                                          *)
(***************************************************************************)
Unprocessed(w) == {claimed[w][k].message_id : k \in 1..Len(claimed[w])}

\* the batch of w is abandoned with chunks left over
BatchAbandoned(w) ==
    /\ pc[w] \in {"proc", "rec"}
    /\ ctx[w] # "none" /\ ctx'[w] = "none"
    /\ claimed[w] # <<>>

BatchLeftPending(w) ==
    /\ results' = results
    /\ acked' = acked
    /\ \A id \in Unprocessed(w) :
          \E e \in pel' : e.message_id = id /\ e.consumer = w

C36_ReclaimBatchFault ==
    [][\A w \in Workers :
          BatchAbandoned(w) => BatchLeftPending(w) /\ Running(w)']_vars

(***************************************************************************)
(* Streams workers whose attempts may fail, reclaiming one chunk per call  *)
(* from a pending list longer than the 2 * count entries that              *)
(* claim_stale_tasks asks get_pending_tasks for.                           *)
(***************************************************************************)
InitWindow ==
    /\ backend = "redis"
    /\ total_parameters = TotalParameters
    /\ chunk_size = WindowChunkSize
    /\ max_retries = MaxRetries
    /\ claim_count = WindowClaimCount
    /\ worker_id = [w \in AllWorkers |-> w]
    /\ total_workers = MaxWorkerId + 1
    /\ batch_size = MaxBatchSize
    /\ InitState

NextWindow ==
    \/ \E w \in Workers : Bootstrap(w)
    \/ \E w \in Workers : StaleRecovery(w)
    \/ \E w \in Workers : Consume(w)
    \/ \E w \in Workers : ProcessChunkFault(w)
    \/ Tick

SpecWindow == InitWindow /\ [][NextWindow]_vars

(***************************************************************************)
(* C37 (reclaim finds stale work): when claim_stale_tasks reads the        *)
(* pending list while it holds an entry idle for min_idle or more and no   *)
(* other worker is inside claim_stale_tasks, the call has a stale entry to *)
(* claim (it does not return the empty list), whatever the number and the  *)
(* position of the fresher entries.                                        *)
(***************************************************************************)
StalePending == \E e \in pel : e.idle_time_ms >= stale_threshold_ms

Reclaiming(w) == pc[w] \in {"stale_scan", "xclaim"}

C37_ReclaimFindsStaleWork ==
    [][\A w \in Workers :
          (/\ pc[w] = "stale_scan" /\ pc'[w] = "xclaim"
           /\ StalePending
           /\ \A v \in AllWorkers \ {w} : ~Reclaiming(v))
              => SkipFresh(pending'[w], stale_threshold_ms) # <<>>]_vars

(***************************************************************************)
(* Static mode (USE_QUEUE=false): DistributedWorker processes the fixed    *)
(* range that _calculate_range gives its worker_id.                        *)
(***************************************************************************)
\* utils.calculate_worker_range: (start, end), end exclusive
calculate_worker_range_even(id, workers, params) ==
    LET params_per_worker == params \div workers
        start == id * params_per_worker
    IN <<start, start + params_per_worker>>
calculate_worker_range(id, workers, params) ==
    LET params_per_worker == params \div workers
        remainder == params % workers
        start == id * params_per_worker
        end == start + params_per_worker
    IN <<start, IF id = workers - 1 THEN end + remainder ELSE end>>

\* DistributedWorker._calculate_range, on the fields of the worker
CalculateRange(w) ==
    LET params_per_worker == total_parameters \div total_workers
        remainder == total_parameters % total_workers
        start == worker_id[w] * params_per_worker
        end == start + params_per_worker
    IN <<start, IF worker_id[w] = total_workers - 1 THEN end + remainder
                ELSE end>>

\* the worker processes of a static run: WORKER_ID 0 .. TOTAL_WORKERS - 1
StaticWorkers == {w \in AllWorkers : worker_id[w] < total_workers}

\* DistributedWorker.__init__ and the start of run
StaticStart(w) ==
    /\ w \in StaticWorkers
    /\ pc[w] = "boot"
    /\ range_start' = [range_start EXCEPT ![w] = CalculateRange(w)[1]]
    /\ range_end' = [range_end EXCEPT ![w] = CalculateRange(w)[2]]
    /\ current' = [current EXCEPT ![w] = CalculateRange(w)[1]]
    /\ processed_count' = [processed_count EXCEPT ![w] = 0]
    /\ pc' = [pc EXCEPT ![w] = "static_loop"]
    /\ UNCHANGED <<cfgVars, countVars, outVars, connVars, redisVars,
                   rabbitVars, results, seeded, acked, localVars, kill_now,
                   envVars, batch_end, param_id>>

\* "while current < self.range_end and not self.killer.kill_now"
StaticRunLoop(w) ==
    /\ pc[w] = "static_loop"
    /\ IF current[w] < range_end[w] /\ ~kill_now[w]
       THEN /\ batch_end' = [batch_end EXCEPT ![w] =
                                Min(current[w] + batch_size, range_end[w])]
            /\ param_id' = [param_id EXCEPT ![w] = current[w]]
            /\ pc' = [pc EXCEPT ![w] = "static_batch"]
       ELSE /\ pc' = [pc EXCEPT ![w] = "static_done"]
            /\ UNCHANGED <<batch_end, param_id>>
    /\ UNCHANGED <<cfgVars, countVars, outVars, connVars, redisVars,
                   rabbitVars, results, seeded, acked, localVars, kill_now,
                   envVars, range_start, range_end, current, processed_count>>

\* _process_batch: one turn of "for param_id in range(batch_start,
\* batch_end)", or its end and "current = batch_end"
StaticProcessBatch(w) ==
    /\ pc[w] = "static_batch"
    /\ IF param_id[w] < batch_end[w] /\ ~kill_now[w]
       THEN /\ processed_count' = [processed_count EXCEPT ![w] = @ + 1]
            /\ param_id' = [param_id EXCEPT ![w] = @ + 1]
            /\ UNCHANGED <<current, pc>>
       ELSE /\ current' = [current EXCEPT ![w] = batch_end[w]]
            /\ pc' = [pc EXCEPT ![w] = "static_loop"]
            /\ UNCHANGED <<processed_count, param_id>>
    /\ UNCHANGED <<cfgVars, countVars, outVars, connVars, redisVars,
                   rabbitVars, results, seeded, acked, localVars, kill_now,
                   envVars, range_start, range_end, batch_end>>

\* summary['status'] of DistributedWorker._generate_summary
StaticStatus(w) == IF ~kill_now[w] THEN "completed" ELSE "interrupted"

InitStatic ==
    /\ backend = "redis"
    /\ total_parameters \in 0..MaxSeedParams
    /\ chunk_size = ChunkSize
    /\ max_retries = MaxRetries
    /\ claim_count = STALE_CLAIM_COUNT
    /\ worker_id = [w \in AllWorkers |-> w]
    /\ total_workers \in 1..(MaxWorkerId + 1)
    /\ batch_size \in 1..MaxBatchSize
    /\ InitState

NextStatic ==
    \/ \E w \in AllWorkers : StaticStart(w)
    \/ \E w \in AllWorkers : StaticRunLoop(w)
    \/ \E w \in AllWorkers : StaticProcessBatch(w)
    \/ \E w \in AllWorkers : ExitGracefully(w)

SpecStatic == InitStatic /\ [][NextStatic]_vars

(***************************************************************************)
(* C38 (static-mode partition): for every total_workers >= 1 and           *)
(* total_parameters >= 0 the ranges [start, end) of worker_id 0 ..         *)
(* total_workers - 1 are pairwise disjoint and their union is              *)
(* [0, total_parameters); every worker but the last gets                   *)
(* total_parameters div total_workers parameters and the last one that     *)
(* plus the remainder; utils.calculate_worker_range and the worker's       *)
(* _calculate_range agree; and a static worker that finishes with status   *)
(* completed has processed_count = end - start.                            *)
(***************************************************************************)
RangeOf(id) == calculate_worker_range(id, total_workers, total_parameters)

ParamsOf(id) == {p \in 0..total_parameters : RangeOf(id)[1] <= p /\ p < RangeOf(id)[2]}

C38_StaticPartition ==
    /\ \A i, j \in 0..(total_workers - 1) :
          i # j => ParamsOf(i) \cap ParamsOf(j) = {}
    /\ UNION {ParamsOf(i) : i \in 0..(total_workers - 1)} =
          0..(total_parameters - 1)
    /\ \A i \in 0..(total_workers - 1) :
          /\ RangeOf(i)[1] <= RangeOf(i)[2]
          /\ RangeOf(i)[2] - RangeOf(i)[1] =
                IF i = total_workers - 1
                THEN (total_parameters \div total_workers)
                       + (total_parameters % total_workers)
                ELSE total_parameters \div total_workers
    /\ \A w \in StaticWorkers :
          /\ CalculateRange(w) = RangeOf(worker_id[w])
          /\ pc[w] \in {"static_loop", "static_batch", "static_done"} =>
                <<range_start[w], range_end[w]>> = RangeOf(worker_id[w])
          /\ (pc[w] = "static_done" /\ StaticStatus(w) = "completed") =>
                processed_count[w] = range_end[w] - range_start[w]

\* three workers have completed a run whose parameters do not divide evenly
C38_Witness ==
    /\ total_workers = MaxWorkerId + 1
    /\ total_parameters % total_workers # 0
    /\ total_parameters > total_workers
    /\ \A w \in StaticWorkers :
          /\ pc[w] = "static_done" /\ StaticStatus(w) = "completed"
          /\ processed_count[w] > 0
    /\ processed_count[MaxWorkerId] > processed_count[0]

====
